---------------------------- MODULE Spec2Model ----------------------------
(***************************************************************************)
(* Ball-sort puzzle solver: rules engine, SQLite-backed state graph,       *)
(* breadth-first graph construction, exact-length path solver and the      *)
(* iterative-deepening driver of ballsort_sat_iterative_solver.py, and the *)
(* click handling of the interactive game of interface.py.                 *)
(*                                                                         *)
(* A tube is a sequence of colours, bottom to top; a configuration is a    *)
(* sequence of tubes.  Tube indices in moves are 0-based as in the source, *)
(* so tube i of the source is state[i + 1] here.                           *)
(***************************************************************************)
EXTENDS Integers, Sequences, FiniteSets, TLC

\* ------------------------------------------------------------------------
\* Program constant and model bounds
\* ------------------------------------------------------------------------
MAX_CAPACITY == 6

MaxTubes == 3
MaxBalls == 3
MaxCeiling == 2
MaxRuns == 2
MaxDepth == 3

VARIABLES
    run_number,           \* number of this run of the program on the database file
    tube_data,            \* raw_tube_data given to BallSortPuzzle
    max_moves,            \* depth ceiling / largest horizon
    pc,                   \* position of the main program
    tables,               \* TRUE while the two tables exist in the database
    states,               \* rows of table states, in rowid order
    transitions,          \* rows of table transitions, in rowid order
    queue,                \* build_graph: frontier of <<state_id, depth>>
    visited,              \* build_graph: visited identities
    horizon,              \* driver loop variable
    attempts,             \* history: one record per CPPathSolver.solve call
    solution_state_path,  \* driver result: path of identities, or None
    solution_moves,       \* driver result: sequence of moves, or None
    rstate,               \* rules harness: configuration under test
    rcall,                \* rules harness: last call and its result
    raw_tube_data,        \* interface.py: the tubes read from the level file
    game_tubes,           \* BallSortGame.tubes: the balls of each tube
    selected_tube,        \* BallSortGame.selected_tube: None or a tube
    selected_ball,        \* BallSortGame.selected_ball: None or a ball
    game_pc               \* position of BallSortGame.run

\* The state of the interactive game of interface.py.
gameVars == <<raw_tube_data, game_tubes, selected_tube, selected_ball, game_pc>>

vars == <<run_number, tube_data, max_moves, pc, tables, states, transitions, queue,
          visited, horizon, attempts, solution_state_path, solution_moves,
          rstate, rcall, gameVars>>

mainVars == <<run_number, tube_data, max_moves, pc, tables, states, transitions, queue,
              visited, horizon, attempts, solution_state_path, solution_moves>>

\* Optional[...] values: Python's None, or a value.
None == [some |-> FALSE]
Some(v) == [some |-> TRUE, val |-> v]

\* interface.py is not running.
NoGame ==
    /\ raw_tube_data = <<>>
    /\ game_tubes = <<>>
    /\ selected_tube = None
    /\ selected_ball = None
    /\ game_pc = "off"

\* ------------------------------------------------------------------------
\* Small helpers
\* ------------------------------------------------------------------------
\* Two colour tokens tell a uniform tube from a mixed one.
Colors == {1, 2}

Rep(c, n) == [k \in 1..n |-> c]

SeqsUpTo(S, n) == UNION {[1..k -> S] : k \in 0..n}

\* tube[-1]
Top(tube) == tube[Len(tube)]

\* ------------------------------------------------------------------------
\* BallSortPuzzle: the rules engine
\* ------------------------------------------------------------------------
\* BallSortPuzzle.__init__: initial_state and num_tubes, no validation.
initial_state(data) == data
num_tubes(data) == Len(data)

\* Mutant: also demands one tube per colour (check_win of the interactive
\* game), which is_solved must not.
is_solved_one_tube_per_color(state) ==
    /\ \A i \in 1..Len(state) :
          \A k \in 1..Len(state[i]) : state[i][k] = state[i][1]
    /\ \A i, j \in 1..Len(state) :
          (i # j /\ state[i] # <<>> /\ state[j] # <<>>) => state[i][1] # state[j][1]

is_solved(state) ==
    \A i \in 1..Len(state) :
        ~ (state[i] # <<>> /\ ~ (\A k \in 1..Len(state[i]) : state[i][k] = state[i][1]))

\* Mutant: the capacity test off by one (> for >=).
MoveEmitted_capacity_off_by_one(state, src, dst) ==
    /\ state[src + 1] # <<>>
    /\ src # dst
    /\ ~ (Len(state[dst + 1]) > MAX_CAPACITY)
    /\ ~ (state[dst + 1] # <<>> /\ Top(state[dst + 1]) # Top(state[src + 1]))

\* The body of the two nested loops of get_legal_moves for one (src, dst).
MoveEmitted(state, src, dst) ==
    /\ state[src + 1] # <<>>
    /\ src # dst
    /\ ~ (Len(state[dst + 1]) >= MAX_CAPACITY)
    /\ ~ (state[dst + 1] # <<>> /\ Top(state[dst + 1]) # Top(state[src + 1]))

Move(src, dst, color) == [src |-> src, dst |-> dst, color |-> color]

\* The moves in the order the loops append them: src-major, dst-minor.
get_legal_moves(n, state) ==
    LET pairs == [k \in 1..(n * n) |-> <<(k - 1) \div n, (k - 1) % n>>]
        kept  == SelectSeq(pairs, LAMBDA p : MoveEmitted(state, p[1], p[2]))
    IN  [k \in 1..Len(kept) |->
            Move(kept[k][1], kept[k][2], Top(state[kept[k][1] + 1]))]

\* Mutant: the ball is copied to the destination and stays on the source.
apply_move_keeps_source(state, move) ==
    IF state[move.src + 1] = <<>>
    THEN [raised |-> TRUE, value |-> <<>>]
    ELSE LET ball == Top(state[move.src + 1])
         IN  [raised |-> FALSE,
              value  |-> [state EXCEPT ![move.dst + 1] = Append(@, ball)]]

\* pop() of an empty list raises IndexError; append has no capacity check.
apply_move(state, move) ==
    IF state[move.src + 1] = <<>>
    THEN [raised |-> TRUE, value |-> <<>>]
    ELSE LET ball == Top(state[move.src + 1])
         IN  [raised |-> FALSE,
              value  |-> [state EXCEPT
                            ![move.src + 1] = SubSeq(@, 1, Len(@) - 1),
                            ![move.dst + 1] = Append(@, ball)]]

\* ------------------------------------------------------------------------
\* str(state.tubes) and ast.literal_eval, on token sequences
\* ------------------------------------------------------------------------
RECURSIVE JoinComma(_)
JoinComma(items) ==
    IF items = <<>> THEN <<>>
    ELSE IF Len(items) = 1 THEN items[1]
    ELSE items[1] \o <<",">> \o JoinComma(Tail(items))

\* str of a Python tuple whose items are already rendered.
TupleStr(items) ==
    <<"(">> \o JoinComma(items)
            \o (IF Len(items) = 1 THEN <<",">> ELSE <<>>) \o <<")">>

\* repr of a colour token and its inverse, tabulated over the colours in use.
IntRepr == [v \in Colors |-> ToString(v)]
IntOf == [tok \in {IntRepr[v] : v \in Colors} |->
            CHOOSE v \in Colors : IntRepr[v] = tok]

\* Mutant: the empty tubes are left out of the text.
StateStr_drops_empty_tubes(tubes) ==
    LET filled == SelectSeq(tubes, LAMBDA t : t # <<>>)
    IN  TupleStr([i \in 1..Len(filled) |->
                    TupleStr([k \in 1..Len(filled[i]) |-> <<IntRepr[filled[i][k]]>>])])

StateStr(tubes) ==
    TupleStr([i \in 1..Len(tubes) |->
                TupleStr([k \in 1..Len(tubes[i]) |-> <<IntRepr[tubes[i][k]]>>])])

\* Parses the items of a tuple of integers; toks[i] is the token after "(".
RECURSIVE ParseInts(_, _, _)
ParseInts(toks, i, acc) ==
    IF toks[i] = ")" THEN [value |-> acc, next |-> i + 1]
    ELSE IF toks[i] = "," THEN ParseInts(toks, i + 1, acc)
    ELSE ParseInts(toks, i + 1, Append(acc, IntOf[toks[i]]))

\* Parses the items of a tuple of tuples; toks[i] is the token after "(".
RECURSIVE ParseTubes(_, _, _)
ParseTubes(toks, i, acc) ==
    IF toks[i] = ")" THEN [value |-> acc, next |-> i + 1]
    ELSE IF toks[i] = "," THEN ParseTubes(toks, i + 1, acc)
    ELSE LET t == ParseInts(toks, i + 1, <<>>)
         IN  ParseTubes(toks, t.next, Append(acc, t.value))

literal_eval(toks) == ParseTubes(toks, 2, <<>>).value


\* ------------------------------------------------------------------------
\* StateGraphDB: the SQLite store
\* ------------------------------------------------------------------------
\* Row k of a table has rowid k: ids are AUTOINCREMENT and rows are only
\* ever appended between CREATE TABLE and DROP TABLE.
\* SELECT id FROM states WHERE state=?: the ids of the matching rows (state
\* is UNIQUE, so there is at most one).
SelectIdByState(rows, text) ==
    {rows[k].id : k \in {j \in 1..Len(rows) : rows[j].state = text}}

\* Mutant: the column is not UNIQUE, every call appends a row.
insert_state_always_appends(rows, state) ==
    LET after == Append(rows, [id |-> Len(rows) + 1, state |-> StateStr(state)])
    IN  [states |-> after, id |-> after[Len(after)].id]

\* insert_state: INSERT (UNIQUE violation swallowed), then SELECT id.
insert_state(rows, state) ==
    LET state_str == StateStr(state)
        present == SelectIdByState(rows, state_str)
        after == IF present # {} THEN rows
                 ELSE Append(rows, [id |-> Len(rows) + 1, state |-> state_str])
    IN  [states |-> after,
         id |-> IF present # {} THEN CHOOSE i \in present : TRUE
                ELSE after[Len(after)].id]

\* Mutant: the source and destination tube columns swapped.
insert_transition_swapped(rows, from_id, to_id, move) ==
    Append(rows, [from_state |-> from_id, to_state |-> to_id,
                  src_tube |-> move.dst, dst_tube |-> move.src,
                  ball_color |-> move.color])

\* Mutant: INSERT OR REPLACE keyed on to_state, the new record takes the
\* place of the records that lead to the same state.
insert_transition_overwrites(rows, from_id, to_id, move) ==
    Append(SelectSeq(rows, LAMBDA r : r.to_state # to_id),
           [from_state |-> from_id, to_state |-> to_id,
            src_tube |-> move.src, dst_tube |-> move.dst,
            ball_color |-> move.color])

insert_transition(rows, from_id, to_id, move) ==
    Append(rows, [from_state |-> from_id, to_state |-> to_id,
                  src_tube |-> move.src, dst_tube |-> move.dst,
                  ball_color |-> move.color])

get_initial_state_id(rows, data) ==
    LET initial_state_str == StateStr(initial_state(data))
        row == SelectIdByState(rows, initial_state_str)
    IN  IF row # {} THEN CHOOSE i \in row : TRUE ELSE -1

\* The result lists <<from_state, to_state>> in rowid order.
get_allowed_transitions(trs) ==
    [k \in 1..Len(trs) |-> <<trs[k].from_state, trs[k].to_state>>]

\* SELECT ... LIMIT 1: the first matching row of the rowid scan.
get_transition_move(trs, from_state, to_state) ==
    LET hits == {k \in 1..Len(trs) :
                    trs[k].from_state = from_state /\ trs[k].to_state = to_state}
    IN  IF hits = {} THEN None
        ELSE LET k == CHOOSE m \in hits : \A o \in hits : m <= o
             IN  Some(Move(trs[k].src_tube, trs[k].dst_tube, trs[k].ball_color))

\* SELECT state FROM states WHERE id=?: row k is the row of rowid k.
HasId(rows, state_id) == state_id \in 1..Len(rows)

RowOfId(rows, state_id) == rows[state_id]

get_state_by_id(rows, state_id) ==
    IF HasId(rows, state_id)
    THEN Some(literal_eval(RowOfId(rows, state_id).state)) ELSE None

\* The database as the three model variables hold it.
Database(t, rows, trs) == [tables |-> t, states |-> rows, transitions |-> trs]

\* Mutant: DROP TABLE without IF EXISTS fails when the tables are gone.
StateGraphDB_cleanup_plain_drop(db) ==
    IF db.tables
    THEN [raised |-> FALSE, db |-> Database(FALSE, <<>>, <<>>)]
    ELSE [raised |-> TRUE, db |-> db]

\* StateGraphDB.cleanup: DROP TABLE IF EXISTS transitions, then states; the
\* rows and the AUTOINCREMENT counters go with the tables.
StateGraphDB_cleanup(db) ==
    [raised |-> FALSE, db |-> Database(FALSE, <<>>, <<>>)]

\* ------------------------------------------------------------------------
\* build_graph: one iteration of the inner "for move in moves" loop
\* ------------------------------------------------------------------------
\* Mutant: the transition is recorded from the new state to the old one.
ExpandMove_reversed_edge(acc, state_id, depth, current_state, move) ==
    LET applied == apply_move(current_state, move)
    IN  IF acc.raised \/ applied.raised THEN [acc EXCEPT !.raised = TRUE]
        ELSE
        LET ins   == insert_state(acc.states, applied.value)
            fresh == ins.id \notin acc.visited
        IN  [raised      |-> FALSE,
             states      |-> ins.states,
             transitions |-> insert_transition(acc.transitions, ins.id,
                                               state_id, move),
             visited     |-> IF fresh THEN acc.visited \cup {ins.id}
                             ELSE acc.visited,
             queue       |-> IF fresh THEN Append(acc.queue, <<ins.id, depth + 1>>)
                             ELSE acc.queue]

\* Mutant: the visited set is not consulted, every successor is queued.
ExpandMove_ignores_visited(acc, state_id, depth, current_state, move) ==
    LET applied == apply_move(current_state, move)
    IN  IF acc.raised \/ applied.raised THEN [acc EXCEPT !.raised = TRUE]
        ELSE
        LET ins == insert_state(acc.states, applied.value)
        IN  [raised      |-> FALSE,
             states      |-> ins.states,
             transitions |-> insert_transition(acc.transitions, state_id,
                                               ins.id, move),
             visited     |-> acc.visited \cup {ins.id},
             queue       |-> Append(acc.queue, <<ins.id, depth + 1>>)]

ExpandMove(acc, state_id, depth, current_state, move) ==
    LET applied == apply_move(current_state, move)
    IN  IF acc.raised \/ applied.raised THEN [acc EXCEPT !.raised = TRUE]
        ELSE
        LET ins   == insert_state(acc.states, applied.value)
            fresh == ins.id \notin acc.visited
        IN  [raised      |-> FALSE,
             states      |-> ins.states,
             transitions |-> insert_transition(acc.transitions, state_id,
                                               ins.id, move),
             visited     |-> IF fresh THEN acc.visited \cup {ins.id}
                             ELSE acc.visited,
             queue       |-> IF fresh THEN Append(acc.queue, <<ins.id, depth + 1>>)
                             ELSE acc.queue]

\* "for move in moves" from the k-th move on; the store after one move is
\* worked out once and handed to the next.
RECURSIVE ExpandMoves(_, _, _, _, _, _)
ExpandMoves(acc, state_id, depth, current_state, moves, k) ==
    IF k > Len(moves) THEN acc
    ELSE CHOOSE rest \in
            {ExpandMoves(after, state_id, depth, current_state, moves, k + 1) :
                after \in {ExpandMove(acc, state_id, depth, current_state, moves[k])}} :
            TRUE

\* Mutant: the depth test off by one, the last level is not expanded.
ExpandFrontier_stops_early(acc, state_id, depth, max_depth, n) ==
    IF depth + 1 >= max_depth THEN acc
    ELSE IF ~ HasId(acc.states, state_id) THEN acc
    ELSE LET current_state == literal_eval(RowOfId(acc.states, state_id).state)
             moves == get_legal_moves(n, current_state)
         IN  ExpandMoves(acc, state_id, depth, current_state, moves, 1)

\* Mutant: a pair at the ceiling is put back on the queue.
ExpandFrontier_requeues(acc, state_id, depth, max_depth, n) ==
    IF depth >= max_depth
    THEN [acc EXCEPT !.queue = Append(@, <<state_id, depth>>)]
    ELSE IF ~ HasId(acc.states, state_id) THEN acc
    ELSE LET current_state == literal_eval(RowOfId(acc.states, state_id).state)
             moves == get_legal_moves(n, current_state)
         IN  ExpandMoves(acc, state_id, depth, current_state, moves, 1)

\* The body of "while queue" for the popped pair, from the store as it is.
ExpandFrontier(acc, state_id, depth, max_depth, n) ==
    IF depth >= max_depth THEN acc
    ELSE IF ~ HasId(acc.states, state_id) THEN acc
    ELSE LET current_state == literal_eval(RowOfId(acc.states, state_id).state)
             moves == get_legal_moves(n, current_state)
         IN  ExpandMoves(acc, state_id, depth, current_state, moves, 1)

\* ------------------------------------------------------------------------
\* CPPathSolver: build_model and solve
\* ------------------------------------------------------------------------
\* SELECT id FROM states ORDER BY id
db_state_ids(rows) == [k \in 1..Len(rows) |-> rows[k].id]

\* id_to_index = {db_id: idx for idx, db_id in enumerate(db_state_ids)}
id_to_index(ids) ==
    [d \in {ids[k] : k \in 1..Len(ids)} |->
        (CHOOSE k \in 1..Len(ids) : ids[k] = d) - 1]

\* Mutant: collects the database ids instead of the dense indices.
solved_indices_db_ids(rows) ==
    LET ids == db_state_ids(rows)
    IN  {ids[k] : k \in {j \in 1..Len(ids) :
            LET state == get_state_by_id(rows, ids[j])
            IN  state.some /\ is_solved(state.val)}}

\* (2) the indices of the stored configurations that are solved
solved_indices(rows) ==
    LET ids == db_state_ids(rows)
        idx == id_to_index(ids)
    IN  {idx[ids[k]] : k \in {j \in 1..Len(ids) :
            LET state == get_state_by_id(rows, ids[j])
            IN  state.some /\ is_solved(state.val)}}

\* Mutant: no constraint on X_horizon when nothing is solved.
FinalValues_unconstrained(rows) ==
    LET solved == solved_indices(rows)
        domain == 0..(Len(rows) - 1)
    IN  IF solved = {} THEN domain ELSE domain \cap solved

\* The values constraint (2) leaves to X_horizon: X == -1 when nothing is
\* solved, a one-column table of the solved indices otherwise.
FinalValues(rows) ==
    LET solved == solved_indices(rows)
        domain == 0..(Len(rows) - 1)
    IN  IF solved = {} THEN {x \in domain : x = -1}
        ELSE domain \cap solved

\* (3) the table of allowed pairs, over indices
allowed_transitions(rows, trs) ==
    LET idx == id_to_index(db_state_ids(rows))
        pairs == get_allowed_transitions(trs)
    IN  {<<idx[pairs[k][1]], idx[pairs[k][2]]>> :
            k \in {j \in 1..Len(pairs) :
                     pairs[j][1] \in DOMAIN idx /\ pairs[j][2] \in DOMAIN idx}}

\* (1) X_0 == init_index
init_index(rows, data) ==
    id_to_index(db_state_ids(rows))[get_initial_state_id(rows, data)]

\* The indices from which constraint (2) can be met in exactly k more steps
\* along the table (3).
RECURSIVE Viable(_, _, _, _)
Viable(finals, allowed, domain, k) ==
    IF k = 0 THEN finals
    ELSE LET later == Viable(finals, allowed, domain, k - 1)
         IN  {i \in domain : \E j \in later : <<i, j>> \in allowed}

\* The assignments of X_0..X_t that extend to a satisfying one of X_0..X_h.
RECURSIVE Prefixes(_, _, _, _, _, _)
Prefixes(first, finals, allowed, domain, h, t) ==
    IF t = 0
    THEN IF first \in Viable(finals, allowed, domain, h) THEN {<<first>>} ELSE {}
    ELSE LET shorter == Prefixes(first, finals, allowed, domain, h, t - 1)
             here == Viable(finals, allowed, domain, h - t)
         IN  UNION {{Append(p, j) : j \in {x \in here : <<p[Len(p)], x>> \in allowed}}
                        : p \in shorter}

\* The satisfying assignments of the model built for this horizon, the
\* values CpSolver.Solve may report (any one of them; none: INFEASIBLE).
Assignments(rows, trs, data, h) ==
    Prefixes(init_index(rows, data), FinalValues(rows),
             allowed_transitions(rows, trs), 0..(Len(rows) - 1), h, h)

\* sol_db_ids = [db_state_ids[i] for i in sol_indices]
ToDbIds(rows, sol_indices) ==
    [t \in 1..Len(sol_indices) |-> db_state_ids(rows)[sol_indices[t] + 1]]

\* The paths solve() may return; it returns None when the set is empty.
solve(rows, trs, data, h) ==
    {ToDbIds(rows, x) : x \in Assignments(rows, trs, data, h)}

\* ------------------------------------------------------------------------
\* CPModelInterpreter.extract_moves
\* ------------------------------------------------------------------------
extract_moves(trs, state_path) ==
    LET found == [i \in 1..(Len(state_path) - 1) |->
                    get_transition_move(trs, state_path[i], state_path[i + 1])]
    IN  IF \E i \in 1..Len(found) : ~ found[i].some THEN None
        ELSE Some([i \in 1..Len(found) |-> found[i].val])

\* ------------------------------------------------------------------------
\* Inputs
\* ------------------------------------------------------------------------
ShortTubes == SeqsUpTo(Colors, MaxBalls)

\* The configurations of n tubes that hold at most b balls together.
RECURSIVE ConfigsOf(_, _)
ConfigsOf(n, b) ==
    IF n = 0 THEN {<<>>}
    ELSE UNION {{<<t>> \o c : c \in ConfigsOf(n - 1, b - Len(t))} :
                    t \in {u \in ShortTubes : Len(u) <= b}}

\* Configurations of 1..MaxTubes tubes holding at most MaxBalls balls.
ShortConfigs == UNION {ConfigsOf(n, MaxBalls) : n \in 1..MaxTubes}

\* The same with the first tube standing on MAX_CAPACITY - 1 balls of one
\* colour, so that a tube reaches and exceeds the capacity.
TallConfigs ==
    {[c EXCEPT ![1] = Rep(1, MAX_CAPACITY - 1) \o @] : c \in ShortConfigs}

InitialConfigs == ShortConfigs \cup TallConfigs

NoCall == [op |-> "none"]

\* ------------------------------------------------------------------------
\* The main program
\* ------------------------------------------------------------------------
Init ==
    /\ run_number = 1
    /\ tube_data \in InitialConfigs
    /\ max_moves \in 0..MaxCeiling
    /\ pc = "start"
    /\ tables = FALSE
    /\ states = <<>>
    /\ transitions = <<>>
    /\ queue = <<>>
    /\ visited = {}
    /\ horizon = 0
    /\ attempts = <<>>
    /\ solution_state_path = None
    /\ solution_moves = None
    /\ rstate = <<>>
    /\ rcall = NoCall
    /\ NoGame

\* StateGraphDB.__init__: connect and create the tables if they are absent.
create_tables ==
    /\ pc = "start"
    /\ tables' = TRUE
    /\ pc' = "build_graph"
    /\ UNCHANGED <<run_number, tube_data, max_moves, states, transitions, queue, visited,
                   horizon, attempts, solution_state_path, solution_moves,
                   rstate, rcall, gameVars>>

\* build_graph up to the loop: intern the initial state, seed the frontier.
build_graph_begin ==
    /\ pc = "build_graph"
    /\ \E ins \in {insert_state(states, initial_state(tube_data))} :
           /\ states' = ins.states
           /\ queue' = <<<<ins.id, 0>>>>
           /\ visited' = {ins.id}
    /\ pc' = "bfs"
    /\ UNCHANGED <<run_number, tube_data, max_moves, tables, transitions, horizon, attempts,
                   solution_state_path, solution_moves, rstate, rcall, gameVars>>

\* One iteration of "while queue".
build_graph_step ==
    /\ pc = "bfs"
    /\ queue # <<>>
    /\ \E acc \in {ExpandFrontier(
                      [raised |-> FALSE, states |-> states,
                       transitions |-> transitions, visited |-> visited,
                       queue |-> Tail(queue)],
                      Head(queue)[1], Head(queue)[2], max_moves,
                      num_tubes(tube_data))} :
           /\ states' = acc.states
           /\ transitions' = acc.transitions
           /\ visited' = acc.visited
           /\ queue' = acc.queue
           /\ pc' = IF acc.raised THEN "crashed" ELSE "bfs"
    /\ UNCHANGED <<run_number, tube_data, max_moves, tables, horizon, attempts,
                   solution_state_path, solution_moves, rstate, rcall, gameVars>>

\* Mutant: the driver loop starts while the frontier still holds pairs.
build_graph_end_early ==
    /\ pc = "bfs"
    /\ horizon' = 1
    /\ pc' = "driver"
    /\ UNCHANGED <<run_number, tube_data, max_moves, tables, states, transitions, queue,
                   visited, attempts, solution_state_path, solution_moves,
                   rstate, rcall, gameVars>>

\* The queue is empty: build_graph returns and the driver loop starts.
build_graph_end ==
    /\ pc = "bfs"
    /\ queue = <<>>
    /\ horizon' = 1
    /\ pc' = "driver"
    /\ UNCHANGED <<run_number, tube_data, max_moves, tables, states, transitions, queue,
                   visited, attempts, solution_state_path, solution_moves,
                   rstate, rcall, gameVars>>

\* Mutant: the loop steps by two.
next_horizon_skips(h) == h + 2

\* range(1, max_moves + 1) hands out the horizons one by one.
next_horizon(h) == h + 1

\* The body of the loop once solve() has returned state_path: extract the
\* moves, break when there are some, otherwise go on with the next horizon.
driver_iteration(state_path) ==
    \E moves \in {IF state_path.some
                   THEN extract_moves(transitions, state_path.val)
                   ELSE None} :
        /\ attempts' = Append(attempts,
                          [horizon |-> horizon, state_path |-> state_path,
                           moves |-> moves])
        /\ IF state_path.some /\ moves.some
           THEN /\ solution_moves' = moves
                /\ solution_state_path' = state_path
                /\ pc' = "after_loop"
                /\ UNCHANGED horizon
           ELSE /\ horizon' = next_horizon(horizon)
                /\ UNCHANGED <<pc, solution_state_path, solution_moves>>

\* One iteration of "for horizon in range(1, max_moves + 1)".
try_horizon ==
    /\ pc = "driver"
    /\ horizon <= max_moves
    /\ IF get_initial_state_id(states, tube_data) = -1
       THEN \* build_model raises ValueError
            /\ pc' = "crashed"
            /\ UNCHANGED <<horizon, attempts, solution_state_path, solution_moves>>
       ELSE \E paths \in {solve(states, transitions, tube_data, horizon)} :
                \E state_path \in (IF paths = {} THEN {None}
                                   ELSE {Some(sp) : sp \in paths}) :
                    driver_iteration(state_path)
    /\ UNCHANGED <<run_number, tube_data, max_moves, tables, states, transitions, queue,
                   visited, rstate, rcall, gameVars>>

\* range(1, max_moves + 1) is exhausted.
loop_exhausted ==
    /\ pc = "driver"
    /\ horizon > max_moves
    /\ pc' = "after_loop"
    /\ UNCHANGED <<run_number, tube_data, max_moves, tables, states, transitions, queue,
                   visited, horizon, attempts, solution_state_path,
                   solution_moves, rstate, rcall, gameVars>>

\* "if solution_moves is None": report, cleanup, close, sys.exit(1).
report_no_solution ==
    /\ pc = "after_loop"
    /\ ~ solution_moves.some
    /\ \E dropped \in {StateGraphDB_cleanup(Database(tables, states, transitions))} :
           /\ tables' = dropped.db.tables
           /\ states' = dropped.db.states
           /\ transitions' = dropped.db.transitions
           /\ pc' = IF dropped.raised THEN "crashed" ELSE "exit_1"
    /\ UNCHANGED <<run_number, tube_data, max_moves, queue, visited, horizon, attempts,
                   solution_state_path, solution_moves, rstate, rcall, gameVars>>

\* Print the moves and replay them: animate_solution polls the events once
\* per move and leaves through sys.exit() on QUIT.
animate_solution ==
    /\ pc = "after_loop"
    /\ solution_moves.some
    /\ \E quit \in BOOLEAN :
         /\ quit => solution_moves.val # <<>>
         /\ pc' = IF quit THEN "exit_quit" ELSE "cleanup"
    /\ UNCHANGED <<run_number, tube_data, max_moves, tables, states, transitions, queue,
                   visited, horizon, attempts, solution_state_path,
                   solution_moves, rstate, rcall, gameVars>>

\* cleanup() and close() at the end of the main program.
cleanup ==
    /\ pc = "cleanup"
    /\ \E dropped \in {StateGraphDB_cleanup(Database(tables, states, transitions))} :
           /\ tables' = dropped.db.tables
           /\ states' = dropped.db.states
           /\ transitions' = dropped.db.transitions
           /\ pc' = IF dropped.raised THEN "crashed" ELSE "exit_0"
    /\ UNCHANGED <<run_number, tube_data, max_moves, queue, visited, horizon, attempts,
                   solution_state_path, solution_moves, rstate, rcall, gameVars>>

Next ==
    \/ create_tables
    \/ build_graph_begin
    \/ build_graph_step
    \/ build_graph_end
    \/ try_horizon
    \/ loop_exhausted
    \/ report_no_solution
    \/ animate_solution
    \/ cleanup

\* One run of the program on a database file that holds no table.
Spec == Init /\ [][Next]_vars

\* The program is started again on the state_graph.db file that the
\* sys.exit() of animate_solution left behind, for the same puzzle and a
\* ceiling of its own.  (After cleanup() the file holds no table and the
\* next run starts as Init describes.)
run_again ==
    /\ pc = "exit_quit"
    /\ run_number < MaxRuns
    /\ run_number' = run_number + 1
    /\ max_moves' \in 0..MaxCeiling
    /\ pc' = "start"
    /\ queue' = <<>>
    /\ visited' = {}
    /\ horizon' = 0
    /\ attempts' = <<>>
    /\ solution_state_path' = None
    /\ solution_moves' = None
    /\ UNCHANGED <<tube_data, tables, states, transitions, rstate, rcall, gameVars>>

\* Runs of the program one after the other on the same database file.
RerunNext ==
    \/ Next
    \/ run_again

RerunSpec == Init /\ [][RerunNext]_vars

\* The program is started again after raw_tube_data was edited in the
\* script: another puzzle of as many tubes, the same max_moves, on the
\* state_graph.db file that the sys.exit() of animate_solution left behind.
run_edited ==
    /\ pc = "exit_quit"
    /\ run_number < MaxRuns
    /\ run_number' = run_number + 1
    /\ tube_data' \in {c \in ShortConfigs : Len(c) = Len(tube_data) /\ c # tube_data}
    /\ pc' = "start"
    /\ queue' = <<>>
    /\ visited' = {}
    /\ horizon' = 0
    /\ attempts' = <<>>
    /\ solution_state_path' = None
    /\ solution_moves' = None
    /\ UNCHANGED <<max_moves, tables, states, transitions, rstate, rcall, gameVars>>

EditedRerunNext ==
    \/ Next
    \/ run_edited

\* Runs of the program one after the other, on one puzzle and then another.
EditedRerunSpec == Init /\ [][EditedRerunNext]_vars

\* ------------------------------------------------------------------------
\* Graph construction alone, with ceilings up to MaxDepth
\* ------------------------------------------------------------------------
BuildInit ==
    /\ run_number = 1
    /\ tube_data \in InitialConfigs
    /\ max_moves \in 0..MaxDepth
    /\ pc = "start"
    /\ tables = FALSE
    /\ states = <<>>
    /\ transitions = <<>>
    /\ queue = <<>>
    /\ visited = {}
    /\ horizon = 0
    /\ attempts = <<>>
    /\ solution_state_path = None
    /\ solution_moves = None
    /\ rstate = <<>>
    /\ rcall = NoCall
    /\ NoGame

BuildNext ==
    \/ create_tables
    \/ build_graph_begin
    \/ build_graph_step
    \/ build_graph_end

BuildSpec == BuildInit /\ [][BuildNext]_vars

\* Graph construction for the inputs of Init.  The program is one thread
\* that runs on: a statement it has reached is executed.  The last conjunct is WF_vars(build_graph_step) written out:
\* an iteration is enabled exactly when its guard holds, ExpandFrontier
\* being defined for every store and every pair.
BuildFairSpec ==
    /\ Init /\ [][BuildNext]_vars
    /\ WF_vars(create_tables)
    /\ WF_vars(build_graph_begin)
    /\ WF_vars(build_graph_end)
    /\ \/ []<>(~ (pc = "bfs" /\ queue # <<>>))
       \/ []<><<build_graph_step>>_vars

\* ------------------------------------------------------------------------
\* The driver over a solver that breaks its contract
\* ------------------------------------------------------------------------
\* A solver that keeps constraints (1) and (2) and drops the table
\* constraints (3): its paths may step along pairs that are not recorded.
solve_ignoring_table(rows, data, h) ==
    LET domain == 0..(Len(rows) - 1)
    IN  {ToDbIds(rows, x) :
            x \in Prefixes(init_index(rows, data), FinalValues(rows),
                           domain \X domain, domain, h, h)}

\* One iteration of the driver loop over that solver.
try_horizon_unsound_solver ==
    /\ pc = "driver"
    /\ horizon <= max_moves
    /\ IF get_initial_state_id(states, tube_data) = -1
       THEN /\ pc' = "crashed"
            /\ UNCHANGED <<horizon, attempts, solution_state_path, solution_moves>>
       ELSE \E paths \in {solve_ignoring_table(states, tube_data, horizon)} :
                \E state_path \in (IF paths = {} THEN {None}
                                   ELSE {Some(sp) : sp \in paths}) :
                    driver_iteration(state_path)
    /\ UNCHANGED <<run_number, tube_data, max_moves, tables, states, transitions, queue,
                   visited, rstate, rcall, gameVars>>

UnsoundSolverNext ==
    \/ create_tables
    \/ build_graph_begin
    \/ build_graph_step
    \/ build_graph_end
    \/ try_horizon_unsound_solver
    \/ loop_exhausted
    \/ report_no_solution
    \/ animate_solution
    \/ cleanup

UnsoundSolverSpec == Init /\ [][UnsoundSolverNext]_vars

\* ------------------------------------------------------------------------
\* The rules engine called on its own: BallSortPuzzle(rstate) and one call
\* of is_solved, get_legal_moves or apply_move on its configuration
\* ------------------------------------------------------------------------
\* Moves a caller can pass to apply_move: any two tube indices, any colour.
AnyMoves(n) == {Move(src, dst, color) : src \in 0..(n - 1), dst \in 0..(n - 1),
                                        color \in Colors}

RulesInit ==
    /\ rstate \in InitialConfigs
    /\ rcall = NoCall
    /\ run_number = 1
    /\ tube_data = <<>>
    /\ max_moves = 0
    /\ pc = "rules"
    /\ tables = FALSE
    /\ states = <<>>
    /\ transitions = <<>>
    /\ queue = <<>>
    /\ visited = {}
    /\ horizon = 0
    /\ attempts = <<>>
    /\ solution_state_path = None
    /\ solution_moves = None
    /\ NoGame

call_is_solved ==
    /\ rcall = NoCall
    /\ rcall' = [op |-> "is_solved", result |-> is_solved(rstate)]
    /\ UNCHANGED <<rstate, mainVars, gameVars>>

call_get_legal_moves ==
    /\ rcall = NoCall
    /\ rcall' = [op |-> "get_legal_moves",
                 result |-> get_legal_moves(num_tubes(rstate), rstate)]
    /\ UNCHANGED <<rstate, mainVars, gameVars>>

call_apply_move ==
    /\ rcall = NoCall
    /\ \E move \in AnyMoves(Len(rstate)) :
         rcall' = [op |-> "apply_move", move |-> move,
                   result |-> apply_move(rstate, move)]
    /\ UNCHANGED <<rstate, mainVars, gameVars>>

RulesNext ==
    \/ call_is_solved
    \/ call_get_legal_moves
    \/ call_apply_move

RulesSpec == RulesInit /\ [][RulesNext]_vars

\* ------------------------------------------------------------------------
\* Properties of the rules engine (RulesSpec)
\* ------------------------------------------------------------------------
C7_Eligible(state, src, dst) ==
    /\ src # dst
    /\ Len(state[src + 1]) > 0
    /\ Len(state[dst + 1]) < MAX_CAPACITY
    /\ \/ Len(state[dst + 1]) = 0
       \/ state[dst + 1][Len(state[dst + 1])] = state[src + 1][Len(state[src + 1])]

\* C7: get_legal_moves returns exactly one move for every ordered pair of
\* distinct tubes (src, dst) with src non-empty, dst holding fewer than
\* MAX_CAPACITY balls and dst empty or topped by the top colour of src; the
\* move carries the top colour of src; there is no move with src = dst and
\* no other move.
C7_LegalMovesExact ==
    rcall.op = "get_legal_moves" =>
        LET ms == rcall.result
            n  == Len(rstate)
        IN  /\ \A src \in 0..(n - 1), dst \in 0..(n - 1) :
                 Cardinality({k \in 1..Len(ms) : ms[k].src = src /\ ms[k].dst = dst})
                    = IF C7_Eligible(rstate, src, dst) THEN 1 ELSE 0
            /\ \A k \in 1..Len(ms) :
                 /\ ms[k].src \in 0..(n - 1)
                 /\ ms[k].dst \in 0..(n - 1)
                 /\ ms[k].src # ms[k].dst
                 /\ ms[k].color = rstate[ms[k].src + 1][Len(rstate[ms[k].src + 1])]

\* A call on a configuration with a full tube whose top colour matches the
\* top of another tube: one direction is emitted, the other is not.
C7_Witness ==
    /\ rcall.op = "get_legal_moves"
    /\ \E i, j \in 1..Len(rstate) :
         /\ i # j
         /\ Len(rstate[i]) = MAX_CAPACITY
         /\ rstate[j] # <<>>
         /\ Top(rstate[i]) = Top(rstate[j])
         /\ Len(rstate[j]) < MAX_CAPACITY
         /\ \E k \in 1..Len(rcall.result) :
              rcall.result[k].src = i - 1 /\ rcall.result[k].dst = j - 1

\* What the claim expects of a successful apply_move.
C9_Expected(state, move) ==
    [i \in 1..Len(state) |->
        IF move.src = move.dst THEN state[i]
        ELSE IF i = move.src + 1 THEN SubSeq(state[i], 1, Len(state[i]) - 1)
        ELSE IF i = move.dst + 1
             THEN Append(state[i], state[move.src + 1][Len(state[move.src + 1])])
        ELSE state[i]]

\* C9, for a move between two distinct tubes: apply_move fails whenever
\* tube move.src is empty or tube move.dst is at capacity; otherwise it
\* returns the configuration with the top colour of move.src moved on top
\* of move.dst.
C9_ApplyMoveChecksPreconditions ==
    (rcall.op = "apply_move" /\ rcall.move.src # rcall.move.dst) =>
        LET move == rcall.move
        IN  IF \/ Len(rstate[move.src + 1]) = 0
               \/ Len(rstate[move.dst + 1]) >= MAX_CAPACITY
            THEN rcall.result.raised
            ELSE /\ ~ rcall.result.raised
                 /\ rcall.result.value = C9_Expected(rstate, move)

C10_Uniform(tube) == Cardinality({tube[k] : k \in 1..Len(tube)}) = 1

\* C10: is_solved is true iff every non-empty tube holds a single repeated
\* colour; removing or adding empty tubes never changes the result, and
\* tubes sharing a colour do not make it false.
C10_IsSolvedIffUniform ==
    rcall.op = "is_solved" =>
        /\ rcall.result =
              (\A i \in 1..Len(rstate) : rstate[i] # <<>> => C10_Uniform(rstate[i]))
        /\ rcall.result = is_solved(SelectSeq(rstate, LAMBDA t : t # <<>>))
        /\ rcall.result = is_solved(<<<<>>>> \o rstate \o <<<<>>>>)

\* A solved configuration with two tubes of the same colour and an empty one.
C10_Witness ==
    /\ rcall.op = "is_solved"
    /\ rcall.result
    /\ \E i, j, e \in 1..Len(rstate) :
         /\ i # j
         /\ rstate[i] # <<>> /\ rstate[j] # <<>>
         /\ rstate[i][1] = rstate[j][1]
         /\ rstate[e] = <<>>

\* ------------------------------------------------------------------------
\* Properties of the main program (Spec)
\* ------------------------------------------------------------------------
\* The store as build_graph left it is still there.
GraphBuilt == pc \in {"driver", "after_loop"}

Reported == pc = "after_loop" /\ solution_moves.some

StoredConfig(k) == literal_eval(states[k].state)

\* Applies moves[k..] in order from configuration c, each move required to
\* be one of get_legal_moves of the configuration it is applied to.
RECURSIVE Replay(_, _, _, _)
Replay(n, c, moves, k) ==
    IF k > Len(moves) THEN [ok |-> TRUE, configs |-> <<>>]
    ELSE LET legal   == get_legal_moves(n, c)
             applied == apply_move(c, moves[k])
         IN  IF (\A j \in 1..Len(legal) : legal[j] # moves[k]) \/ applied.raised
             THEN [ok |-> FALSE, configs |-> <<>>]
             ELSE LET rest == Replay(n, applied.value, moves, k + 1)
                  IN  [ok |-> rest.ok, configs |-> <<applied.value>> \o rest.configs]

\* C1: when the driver reports a solution for a state path X_0..X_h, the
\* move list has exactly h moves, and applying them in order from the
\* initial configuration, each a legal move of the configuration it is
\* applied to, yields exactly the configurations stored under X_1..X_h, the
\* last of which is solved.
C1_RoundTrip ==
    Reported =>
        LET path  == solution_state_path.val
            moves == solution_moves.val
            h     == Len(path) - 1
            run   == Replay(num_tubes(tube_data), initial_state(tube_data), moves, 1)
        IN  /\ h = horizon
            /\ Len(moves) = h
            /\ run.ok
            /\ Len(run.configs) = h
            /\ path[1] \in 1..Len(states)
            /\ StoredConfig(path[1]) = initial_state(tube_data)
            /\ \A t \in 1..h :
                 /\ path[t + 1] \in 1..Len(states)
                 /\ states[path[t + 1]].id = path[t + 1]
                 /\ StoredConfig(path[t + 1]) = run.configs[t]
            /\ h >= 1 => is_solved(run.configs[h])

\* A reported solution of at least two moves.
C1_Witness == Reported /\ Len(solution_moves.val) >= 2

\* The identity under which the initial configuration is stored.
InitialIds == {states[k].id : k \in {j \in 1..Len(states) :
                                        StoredConfig(j) = initial_state(tube_data)}}

\* The identities of the stored configurations that are solved.
GoalIds == {states[k].id : k \in {j \in 1..Len(states) : is_solved(StoredConfig(j))}}

\* The recorded transitions as pairs of identities.
EdgePairs ==
    {<<transitions[k].from_state, transitions[k].to_state>> :
        k \in 1..Len(transitions)}

\* The identities that end a chain of exactly t pairs of edges from one of S.
RECURSIVE ReachFrom(_, _, _)
ReachFrom(edges, S, t) ==
    IF t = 0 THEN S
    ELSE LET before == ReachFrom(edges, S, t - 1)
         IN  {e[2] : e \in {x \in edges : x[1] \in before}}

WalkExists(h) == ReachFrom(EdgePairs, InitialIds, h) \cap GoalIds # {}

IsGoalWalk(p, h, initial, edges, goals) ==
    /\ Len(p) = h + 1
    /\ p[1] \in initial
    /\ \A t \in 1..h : <<p[t], p[t + 1]>> \in edges
    /\ p[h + 1] \in goals

\* C2: over the fully built graph and for one horizon h, solve returns a
\* path iff some sequence X_0..X_h of stored identities starts at the
\* initial identity, follows recorded transitions and ends at the identity
\* of a solved configuration; every path it returns is such a sequence.
\* Checked of every solve call the driver makes and, on the graph as
\* build_graph leaves it, of solve at every horizon 0..max_moves.
C2_SolverSoundComplete ==
    GraphBuilt =>
        \A initial \in {InitialIds}, edges \in {EdgePairs}, goals \in {GoalIds} :
            /\ \A i \in 1..Len(attempts) :
                 /\ attempts[i].state_path.some
                      <=> ReachFrom(edges, initial, attempts[i].horizon) \cap goals # {}
                 /\ attempts[i].state_path.some =>
                       IsGoalWalk(attempts[i].state_path.val, attempts[i].horizon,
                                  initial, edges, goals)
            /\ (pc = "driver" /\ attempts = <<>>) =>
                 \A h \in 0..max_moves :
                    \A paths \in {solve(states, transitions, tube_data, h)} :
                        /\ paths # {} <=> ReachFrom(edges, initial, h) \cap goals # {}
                        /\ \A p \in paths : IsGoalWalk(p, h, initial, edges, goals)

\* solve returned no path for horizon 1 and a path for horizon 2.
C2_Witness ==
    /\ GraphBuilt
    /\ Len(attempts) = 2
    /\ ~ attempts[1].state_path.some
    /\ attempts[2].state_path.some

C4_Successors(n, S) ==
    UNION {LET legal == get_legal_moves(n, c)
           IN  {apply_move(c, legal[k]).value : k \in 1..Len(legal)} : c \in S}

RECURSIVE C4_Exactly(_)
C4_Exactly(t) ==
    IF t = 0 THEN {initial_state(tube_data)}
    ELSE C4_Successors(num_tubes(tube_data), C4_Exactly(t - 1))

C4_SolvedAt(t) == \E c \in C4_Exactly(t) : is_solved(c)

\* C4: for an initial configuration that is not solved and a ceiling d: if
\* the shortest sequence of legal moves to a solved configuration has
\* length k <= d, the driver reports a solution of exactly k moves whose
\* final configuration is solved; if no solved configuration is within d
\* legal moves, the driver reports no solution.
C4_AgreesWithBFS ==
    (pc = "after_loop" /\ ~ is_solved(initial_state(tube_data))) =>
        LET lengths == {t \in 0..max_moves : C4_SolvedAt(t)}
        IN  IF lengths = {} THEN ~ solution_moves.some
            ELSE LET k == CHOOSE t \in lengths : \A u \in lengths : t <= u
                     run == Replay(num_tubes(tube_data), initial_state(tube_data),
                                   solution_moves.val, 1)
                 IN  /\ solution_moves.some
                     /\ Len(solution_moves.val) = k
                     /\ run.ok
                     /\ is_solved(run.configs[k])

\* An unsolved start whose shortest solution has two moves, reported.
C4_Witness ==
    /\ Reported
    /\ ~ is_solved(initial_state(tube_data))
    /\ ~ C4_SolvedAt(1)
    /\ C4_SolvedAt(2)
    /\ Len(solution_moves.val) = 2

\* C5: when the initial configuration is already solved, solving with any
\* ceiling >= 0 returns an empty move list.
C5_SolvedInputEmptyMoves ==
    (pc = "after_loop" /\ is_solved(initial_state(tube_data))) =>
        (solution_moves.some /\ solution_moves.val = <<>>)

NoGoalStored == \A k \in 1..Len(states) : ~ is_solved(StoredConfig(k))

\* C6: when no stored configuration is solved, solve returns no path for
\* every horizon 1..ceiling and raises nothing, and the driver tries every
\* horizon up to the ceiling and then reports that no solution was found.
C6_NoGoalIsNormal ==
    (tables /\ pc \notin {"start", "build_graph", "bfs"} /\ NoGoalStored) =>
        /\ pc \in {"driver", "after_loop"}
        /\ \A i \in 1..Len(attempts) : ~ attempts[i].state_path.some
        /\ pc = "driver" =>
             \A h \in 1..max_moves : solve(states, transitions, tube_data, h) = {}
        /\ pc = "after_loop" =>
             /\ ~ solution_moves.some
             /\ Len(attempts) = max_moves
             /\ \A h \in 1..max_moves : attempts[h].horizon = h

\* The ceiling exhausted over a graph of several configurations, none solved.
C6_Witness ==
    /\ pc = "after_loop"
    /\ NoGoalStored
    /\ Len(states) >= 2
    /\ Len(attempts) = max_moves
    /\ max_moves >= 2

\* C8: build_graph never fails in apply_move, and every configuration
\* stored in the graph has every tube length <= MAX_CAPACITY at all times.
C8_StoredWithinCapacity ==
    /\ pc # "crashed"
    /\ \A k \in 1..Len(states) :
         \A i \in 1..Len(StoredConfig(k)) : Len(StoredConfig(k)[i]) <= MAX_CAPACITY
\* The configurations one legal move away from c.
NeighboursOf(c) ==
    LET legal == get_legal_moves(Len(c), c)
    IN  {apply_move(c, legal[k]).value : k \in 1..Len(legal)}

\* The rows a step adds to a table that the step keeps.
NewRows(before, after) == (Len(before) + 1)..Len(after)

RowsKept(before, after) ==
    /\ Len(after) >= Len(before)
    /\ \A k \in 1..Len(before) : after[k] = before[k]

C11_Interned ==
    (tables' /\ (states' # states \/ transitions' # transitions)) =>
        /\ RowsKept(states, states')
        /\ \A configs \in {[k \in 1..Len(states') |-> literal_eval(states'[k].state)]} :
              /\ \A k \in NewRows(states, states') :
                    \A j \in 1..(k - 1) :
                        states'[j].id # states'[k].id /\ configs[j] # configs[k]
              /\ \A i \in {states'[k].id : k \in NewRows(states, states')}
                           \cup {transitions'[k].to_state :
                                    k \in NewRows(transitions, transitions')} :
                    insert_state(states', configs[i]) = [states |-> states', id |-> i]
              /\ \A c \in NeighboursOf(initial_state(tube_data)) :
                    (\A k \in 1..Len(states') : configs[k] # c) =>
                        insert_state(states', c).id = Len(states') + 1

\* C11: insert_state only appends rows: no step changes or removes a row
\* while the tables exist, so an identity stays with its configuration;
\* every row a step adds holds a configuration and an identity that no
\* earlier row holds; interning again the configuration of any identity
\* the step added or returned gives that identity and adds no row; and a
\* configuration that is not stored gets a fresh identity.
C11_StableInjectiveIdentity == [][C11_Interned]_vars

\* A built graph of several configurations in which some insert_state call
\* met a configuration that was already stored.
C11_Witness ==
    /\ pc = "driver"
    /\ Len(states) >= 3
    /\ Len(transitions) >= Len(states)
C12_Emptied(db) == ~ db.tables /\ db.states = <<>> /\ db.transitions = <<>>

Ended == pc \in {"exit_0", "exit_1", "exit_quit", "crashed"}

\* C13: every run that built a graph has executed cleanup by the time the
\* program ends, whether a solution was found or not: at the end of the
\* program no table, state or transition is left in the database.
C13_GraphDiscardedAtEnd ==
    Ended => C12_Emptied(Database(tables, states, transitions))
\* The reconstruction of attempt i failed: solve returned a path and
\* extract_moves found no record for one of its pairs.
ReconstructionFailed(i) ==
    attempts[i].state_path.some /\ ~ attempts[i].moves.some

\* The program ended on an error of its own, neither the report of a
\* solution nor the report that there is none.
FatalOutcome == pc = "crashed"

OverCapacity(state) == \E i \in 1..Len(state) : Len(state[i]) > MAX_CAPACITY

\* C15: when a tube of the initial configuration holds more than
\* MAX_CAPACITY balls the run is rejected before exploration: no state is
\* interned, no transition is recorded, nothing is visited or queued for
\* expansion, and the run never gets into the loop of build_graph or
\* beyond.
C15_InvalidInitialRejected ==
    OverCapacity(initial_state(tube_data)) =>
        /\ states = <<>>
        /\ transitions = <<>>
        /\ visited = {}
        /\ queue = <<>>
        /\ pc \in {"start", "build_graph", "crashed"}

\* The storage budget the builder is configured with, in rows of the two
\* tables.
StorageBudget == 3

\* C16: build_graph never lets the store grow beyond the configured
\* budget: it aborts with a resource-exhaustion outcome instead of adding
\* further states and transitions.
C16_FailsFastOnBudget ==
    Len(states) + Len(transitions) <= StorageBudget
\* Brute-force reference: the configurations at most d legal moves away
\* from the initial configuration, and the distance of one of them.
C17_Within(d) == UNION {C4_Exactly(t) : t \in 0..d}

C17_Distance(c) ==
    CHOOSE t \in 0..max_moves :
        c \in C4_Exactly(t) /\ \A u \in 0..(t - 1) : c \notin C4_Exactly(u)

\* C17: after build_graph(d) the configurations in the store are exactly
\* those reachable from the initial configuration by at most d legal moves,
\* and while build_graph runs every pair in the frontier queue holds the
\* identity of such a configuration with its shortest distance from the
\* initial configuration.
C17_ExplorationExact ==
    /\ pc = "driver" =>
          {StoredConfig(k) : k \in 1..Len(states)} = C17_Within(max_moves)
    /\ pc = "bfs" =>
          \A q \in 1..Len(queue) :
              /\ HasId(states, queue[q][1])
              /\ StoredConfig(queue[q][1]) \in C17_Within(max_moves)
              /\ queue[q][2] = C17_Distance(StoredConfig(queue[q][1]))
C18_RealMove(rows, r) ==
    /\ HasId(rows, r.from_state)
    /\ HasId(rows, r.to_state)
    /\ \A c \in {literal_eval(RowOfId(rows, r.from_state).state)} :
          \A move \in {Move(r.src_tube, r.dst_tube, r.ball_color)} :
              /\ \A legal \in {get_legal_moves(num_tubes(tube_data), c)} :
                    \E m \in 1..Len(legal) : legal[m] = move
              /\ move.color = Top(c[move.src + 1])
              /\ apply_move(c, move)
                    = [raised |-> FALSE,
                       value |-> literal_eval(RowOfId(rows, r.to_state).state)]

C18_Recorded ==
    (tables' /\ (states' # states \/ transitions' # transitions)) =>
        /\ RowsKept(states, states')
        /\ RowsKept(transitions, transitions')
        /\ \A k \in NewRows(transitions, transitions') :
              C18_RealMove(states', transitions'[k])

\* C18: during and after build_graph every transition record is a real
\* move.  Every step that touches the store keeps the rows of both tables
\* as they are and only appends, and for each record it appends: its two
\* identities are stored, Move(src, dst, color) is one of get_legal_moves
\* of the configuration stored under from_state, color is the top colour of
\* tube src there, and the configuration stored under to_state is
\* apply_move of that configuration and that move.
C18_RecordsAreMoves == [][C18_Recorded]_vars

\* A built graph with a record that leads back to a configuration stored
\* before the one it leaves.
C18_Witness ==
    /\ pc = "driver"
    /\ Len(transitions) >= 4
    /\ \E k \in 1..Len(transitions) :
          transitions[k].to_state < transitions[k].from_state
\* The records that leave identity i.
C19_Outgoing(i) == {k \in 1..Len(transitions) : transitions[k].from_state = i}

\* The configurations exactly t legal moves away, for t = 0..max_moves.
C19_Layers == [t \in 0..max_moves |-> C4_Exactly(t)]

\* The depth at which breadth-first search meets c: the first layer with c.
C19_Depth(layers, c) ==
    CHOOSE t \in 0..max_moves :
        c \in layers[t] /\ \A u \in 0..(t - 1) : c \notin layers[u]

\* C19: after build_graph(d) from an empty store, an identity at depth d
\* has no outgoing record, an identity at a depth below d has exactly one
\* outgoing record for each move of get_legal_moves of its configuration
\* and no other, no two records share their (from_state, to_state) pair,
\* and get_transition_move has exactly one candidate for every recorded pair.
C19_ExpandedOnce ==
    (pc = "driver" /\ run_number = 1) =>
        /\ \A layers \in {C19_Layers} :
            \A i \in 1..Len(states) :
              \A c \in {StoredConfig(i)} :
                \A legal \in {get_legal_moves(num_tubes(tube_data), c)} :
                  \A out \in {C19_Outgoing(i)} :
                    IF C19_Depth(layers, c) = max_moves
                    THEN out = {}
                    ELSE /\ Cardinality(out) = Len(legal)
                         /\ \A m \in 1..Len(legal) :
                               Cardinality({k \in out :
                                   Move(transitions[k].src_tube, transitions[k].dst_tube,
                                        transitions[k].ball_color) = legal[m]}) = 1
        /\ \A j, k \in 1..Len(transitions) :
              (transitions[j].from_state = transitions[k].from_state
                 /\ transitions[j].to_state = transitions[k].to_state) => j = k
        /\ \A k \in 1..Len(transitions) :
              get_transition_move(transitions, transitions[k].from_state,
                                  transitions[k].to_state)
                = Some(Move(transitions[k].src_tube, transitions[k].dst_tube,
                            transitions[k].ball_color))

\* A built graph of ceiling three in which a move leads back to the
\* initial configuration at depth two, below the ceiling, and an identity
\* at the ceiling has legal moves and no record.
C19_Witness ==
    /\ pc = "driver"
    /\ run_number = 1
    /\ max_moves = 3
    /\ \E k \in 1..Len(transitions) :
          /\ transitions[k].to_state = get_initial_state_id(states, tube_data)
          /\ C19_Depth(C19_Layers, StoredConfig(transitions[k].from_state)) = 1
    /\ \E i \in 1..Len(states) :
          /\ C19_Depth(C19_Layers, StoredConfig(i)) = max_moves
          /\ get_legal_moves(num_tubes(tube_data), StoredConfig(i)) # <<>>
          /\ C19_Outgoing(i) = {}
\* C20: build_graph terminates: once it is called, for whatever initial
\* configuration and ceiling, the frontier queue eventually becomes empty
\* and the while loop ends.
C20_BuildGraphTerminates ==
    (pc = "build_graph") ~> (pc = "bfs" /\ queue = <<>>)

\* The loop of build_graph has emptied its queue for a ceiling of two
\* over a graph of several configurations.
C20_Witness ==
    /\ pc = "bfs"
    /\ queue = <<>>
    /\ max_moves = 2
    /\ Len(states) >= 4

\* ------------------------------------------------------------------------
\* The store over a whole run (Spec)
\* ------------------------------------------------------------------------
\* Between the call of build_graph and the call of cleanup(): the graph is
\* being built, solved over, or replayed.
C21_DuringRun ==
    \/ pc \in {"build_graph", "bfs", "driver"}
    \/ pc = "after_loop" /\ solution_moves.some

C21_Step ==
    C21_DuringRun =>
        /\ tables'
        /\ RowsKept(states, states')
        /\ RowsKept(transitions, transitions')
        /\ \A k \in NewRows(states, states') : states'[k].id = k

\* C21: the store is append-only during a run: from the start of
\* build_graph until cleanup() is called, every step leaves each row of
\* the two tables as it is, identity and configuration and transition
\* record alike, and at most appends rows after them; the tables stay.
C21_AppendOnly == [][C21_Step]_vars

\* The graph is under construction, a call of insert_state has met a
\* configuration that was stored already, and rows were appended since.
C21_Witness ==
    /\ pc = "bfs"
    /\ queue # <<>>
    /\ Len(states) >= 3
    /\ Len(transitions) > Len(states)
C22_Step ==
    /\ (pc' = "driver" /\ pc # "driver") =>
          /\ pc = "bfs"
          /\ queue = <<>>
          /\ attempts = <<>>
    /\ pc = "driver" =>
          /\ queue = <<>>
          /\ tables' = tables
          /\ states' = states
          /\ transitions' = transitions
    /\ attempts' # attempts =>
          /\ pc = "driver"
          /\ Len(attempts') = Len(attempts) + 1
          /\ RowsKept(attempts, attempts')

\* C22: the solve phase is read-only and follows construction: the driver
\* loop is entered only from build_graph with an empty frontier queue and
\* before any solve call, and every step of the loop, which is one
\* CPPathSolver.solve call with the extract_moves call on its path, leaves
\* the tables, the stored states and the transition records as they were,
\* so all horizon attempts see the same graph.
C22_SolveReadOnly == [][C22_Step]_vars

\* Two solve calls and an extract_moves call were made on a graph of
\* several records.
C22_Witness ==
    /\ pc = "after_loop"
    /\ Len(attempts) = 2
    /\ attempts[2].moves.some
    /\ Len(transitions) >= 3
\* ------------------------------------------------------------------------
\* The solver model on a database file that was used before (EditedRerunSpec)
\* ------------------------------------------------------------------------
\* A solver model is built: CPPathSolver.solve is about to be called for
\* the next horizon and build_model finds the initial state.
C23_ModelBuilt ==
    /\ pc = "driver"
    /\ horizon <= max_moves
    /\ get_initial_state_id(states, tube_data) # -1

\* C23: in every solver model the identity of the initial configuration is
\* mapped to index 0 of the dense index range, so X_0 is fixed to 0: in
\* the model built for the next horizon and in every path solve returned.
C23_InitialAtIndexZero ==
    /\ C23_ModelBuilt => init_index(states, tube_data) = 0
    /\ GraphBuilt =>
          \A i \in 1..Len(attempts) :
              attempts[i].state_path.some =>
                  id_to_index(db_state_ids(states))[attempts[i].state_path.val[1]] = 0
\* ------------------------------------------------------------------------
\* Interning and lookup during graph construction (BuildSpec)
\* ------------------------------------------------------------------------
\* get_state_by_id(insert_state(c)) on the store rows.
C24_LookupOfInterned(rows, c) ==
    \A ins \in {insert_state(rows, c)} : get_state_by_id(ins.states, ins.id) = Some(c)

\* Configurations of one tube and of two tubes, interned into a store that
\* holds the initial configuration.
C24_Probes == {c \in ShortConfigs : Len(c) <= 2}

C24_Step ==
    /\ pc = "build_graph" =>
          /\ \A ins \in {insert_state(states, initial_state(tube_data))} :
                /\ states' = ins.states
                /\ get_state_by_id(states', ins.id) = Some(initial_state(tube_data))
          /\ \A c \in C24_Probes : C24_LookupOfInterned(states', c)
    /\ (pc = "bfs" /\ queue # <<>> /\ Head(queue)[2] < max_moves) =>
          \A decoded \in {get_state_by_id(states, Head(queue)[1])} :
              /\ decoded.some
              /\ \A legal \in {get_legal_moves(num_tubes(tube_data), decoded.val)} :
                    \A interned \in {{apply_move(decoded.val, legal[m]).value :
                                         m \in 1..Len(legal)}} :
                        /\ \A c \in interned :
                              \A ins \in {insert_state(states', c)} :
                                  /\ ins.states = states'
                                  /\ get_state_by_id(states', ins.id) = Some(c)
                        /\ \A k \in NewRows(states, states') :
                              \E c \in interned :
                                  get_state_by_id(states', states'[k].id) = Some(c)

\* C24: lookup is the inverse of interning: get_state_by_id of the identity
\* insert_state returns for a configuration is that configuration, for the
\* initial configuration, for configurations of one tube and of two tubes
\* with empty and one-ball tubes, and for every configuration build_graph
\* interns; and what build_graph decodes from a row is the configuration
\* that was interned under its identity.
C24_LookupInvertsInterning == [][C24_Step]_vars

\* A built graph that holds a configuration with an empty tube next to a
\* one-ball tube, interned during the expansion of another.
C24_Witness ==
    /\ pc = "bfs"
    /\ queue = <<>>
    /\ Len(states) >= 3
    /\ \E k \in 2..Len(states) :
          \E i, j \in 1..Len(StoredConfig(k)) :
              StoredConfig(k)[i] = <<>> /\ Len(StoredConfig(k)[j]) = 1
\* The number of balls of colour v in the tubes i.. of configuration c.
RECURSIVE C25_Count(_, _, _)
C25_Count(c, v, i) ==
    IF i > Len(c) THEN 0
    ELSE Cardinality({k \in 1..Len(c[i]) : c[i][k] = v}) + C25_Count(c, v, i + 1)

\* The multiset of the colour tokens of c, as a count for each colour.
C25_Balls(c) == [v \in Colors |-> C25_Count(c, v, 1)]

C25_Step ==
    /\ states' # states =>
          \A balls \in {C25_Balls(initial_state(tube_data))} :
              \A k \in NewRows(states, states') :
                  \A c \in {literal_eval(states'[k].state)} :
                      /\ Len(c) = num_tubes(tube_data)
                      /\ C25_Balls(c) = balls
    /\ (pc = "bfs" /\ queue # <<>> /\ Head(queue)[2] < max_moves) =>
          \A current \in {literal_eval(RowOfId(states, Head(queue)[1]).state)} :
              \A legal \in {get_legal_moves(num_tubes(tube_data), current)} :
                  \A m \in 1..Len(legal) :
                      \A applied \in {apply_move(current, legal[m])} :
                          /\ ~ applied.raised
                          /\ Len(applied.value) = Len(current)
                          /\ \A i \in 1..Len(current) :
                                i \notin {legal[m].src + 1, legal[m].dst + 1} =>
                                    applied.value[i] = current[i]
                          /\ Append(applied.value[legal[m].src + 1], legal[m].color)
                               = current[legal[m].src + 1]
                          /\ applied.value[legal[m].dst + 1]
                               = Append(current[legal[m].dst + 1], legal[m].color)

\* C25: ball conservation: every row build_graph adds to the store holds a
\* configuration of as many tubes as the initial configuration and with as
\* many balls of each colour; and each apply_move that build_graph makes
\* takes the top ball off tube move.src, puts it on top of tube move.dst
\* and leaves every other tube as it was.
C25_BallsConserved == [][C25_Step]_vars

\* A built graph of ceiling three that holds a configuration in which one
\* tube has gained two balls over the initial configuration.
C25_Witness ==
    /\ pc = "bfs"
    /\ queue = <<>>
    /\ max_moves = 3
    /\ \E k \in 1..Len(states) :
          \E i \in 1..Len(tube_data) :
              Len(StoredConfig(k)[i]) >= Len(tube_data[i]) + 2
\* ------------------------------------------------------------------------
\* interface.py: the interactive game BallSortGame
\* ------------------------------------------------------------------------
\* A tube of the game is known by its position 1..n in BallSortGame.tubes
\* and a ball by its colour; None stands for Python's None.
\* MAX_CAPACITY of interface.py: the length of the longest tube of the file.
max_tube_length(data) ==
    CHOOSE m \in {Len(data[i]) : i \in 1..Len(data)} :
        \A i \in 1..Len(data) : Len(data[i]) <= m

\* animate_selection: nothing for an empty tube, else pop() its top ball.
animate_selection(g, tube) ==
    IF g.tubes[tube] = <<>> THEN g
    ELSE [g EXCEPT !.selected_ball = Some(Top(g.tubes[tube])),
                   !.tubes[tube] = SubSeq(@, 1, Len(@) - 1)]

\* move_ball: raised tells that the call ended in an exception.  Without a
\* selected ball the first test holds in every nested call and the
\* recursion ends in RecursionError; len(to_tube.balls) of None is an
\* AttributeError.
RECURSIVE move_ball(_, _, _, _)
move_ball(g, capacity, from_tube, to_tube) ==
    IF ~ g.selected_ball.some THEN [g EXCEPT !.raised = TRUE]
    ELSE IF ~ to_tube.some THEN [g EXCEPT !.raised = TRUE]
    ELSE IF Len(g.tubes[to_tube.val]) >= capacity
    THEN move_ball(g, capacity, None, from_tube)
    ELSE IF /\ from_tube # to_tube
            /\ g.tubes[to_tube.val] # <<>>
            /\ g.selected_ball.val # Top(g.tubes[to_tube.val])
    THEN move_ball(g, capacity, from_tube, from_tube)
    ELSE [g EXCEPT !.tubes[to_tube.val] = Append(@, g.selected_ball.val),
                   !.selected_ball = None]

\* handle_click for a click inside the given tube.
handle_click(g, capacity, tube) ==
    IF g.selected_tube.some
    THEN LET moved == move_ball(g, capacity, g.selected_tube, Some(tube))
         IN  IF moved.raised THEN moved
             ELSE [moved EXCEPT !.selected_tube = None]
    ELSE IF g.tubes[tube] # <<>>
    THEN animate_selection([g EXCEPT !.selected_tube = Some(tube)], tube)
    ELSE g

check_win(g) ==
    /\ ~ g.selected_ball.some
    /\ \A i \in 1..Len(g.tubes) :
          \A k \in 1..Len(g.tubes[i]) : g.tubes[i][k] = g.tubes[i][1]
    /\ \A i, j \in 1..Len(g.tubes) :
          (i # j /\ g.tubes[i] # <<>> /\ g.tubes[j] # <<>>) =>
              g.tubes[i][1] # g.tubes[j][1]

\* The game as the variables hold it.
Game ==
    [raised |-> FALSE, tubes |-> game_tubes, selected_tube |-> selected_tube,
     selected_ball |-> selected_ball]

\* Level files: 1..MaxTubes tubes of at most MaxBalls balls each, holding
\* at most MaxGameBalls balls together.
MaxGameBalls == 4

GameLevels == UNION {ConfigsOf(n, MaxGameBalls) : n \in 1..MaxTubes}

\* BallSortGame(raw_tube_data) has been constructed and run() begins.
GameInit ==
    /\ raw_tube_data \in GameLevels
    /\ game_tubes = raw_tube_data
    /\ selected_tube = None
    /\ selected_ball = None
    /\ game_pc = "run"
    /\ rstate = <<>>
    /\ rcall = NoCall
    /\ run_number = 1
    /\ tube_data = <<>>
    /\ max_moves = 0
    /\ pc = "game"
    /\ tables = FALSE
    /\ states = <<>>
    /\ transitions = <<>>
    /\ queue = <<>>
    /\ visited = {}
    /\ horizon = 0
    /\ attempts = <<>>
    /\ solution_state_path = None
    /\ solution_moves = None

\* run(): a MOUSEBUTTONDOWN event inside a tube.
mouse_button_down ==
    /\ game_pc = "run"
    /\ \E tube \in 1..Len(game_tubes) :
          \E after \in {handle_click(Game, max_tube_length(raw_tube_data), tube)} :
              /\ game_tubes' = after.tubes
              /\ selected_tube' = after.selected_tube
              /\ selected_ball' = after.selected_ball
              /\ game_pc' = IF after.raised THEN "crashed" ELSE "run"
    /\ UNCHANGED <<raw_tube_data, rstate, rcall, mainVars>>

\* run(): check_win() holds after the events of an iteration.
game_won ==
    /\ game_pc = "run"
    /\ check_win(Game)
    /\ game_pc' = "exit"
    /\ UNCHANGED <<raw_tube_data, game_tubes, selected_tube, selected_ball,
                   rstate, rcall, mainVars>>

\* run(): a QUIT event.
game_quit ==
    /\ game_pc = "run"
    /\ game_pc' = "exit"
    /\ UNCHANGED <<raw_tube_data, game_tubes, selected_tube, selected_ball,
                   rstate, rcall, mainVars>>

GameNext ==
    \/ mouse_button_down
    \/ game_won
    \/ game_quit

GameSpec == GameInit /\ [][GameNext]_vars

\* A ball is selected and the tube is no destination for it: it is full,
\* or its top ball has another colour.
C26_InvalidDrop(tube) ==
    /\ selected_tube.some
    /\ selected_ball.some
    /\ \/ Len(game_tubes[tube]) >= max_tube_length(raw_tube_data)
       \/ game_tubes[tube] # <<>> /\ Top(game_tubes[tube]) # selected_ball.val

\* C26: interactive play neither loses nor misplaces a ball on an invalid
\* drop: the game never ends in an exception, and with a ball selected a
\* click on a tube that is full or whose top colour differs puts the ball
\* back on top of the tube it was taken from, raises nothing, leaves every
\* other tube as it is and clears the selection.
C26_InvalidDropReturnsBall ==
    /\ game_pc # "crashed"
    /\ game_pc = "run" =>
          \A tube \in 1..Len(game_tubes) :
              C26_InvalidDrop(tube) =>
                  handle_click(Game, max_tube_length(raw_tube_data), tube)
                    = [raised |-> FALSE,
                       tubes |-> [game_tubes EXCEPT ![selected_tube.val] =
                                     Append(@, selected_ball.val)],
                       selected_tube |-> None,
                       selected_ball |-> None]
=========================================================================
